---- MODULE Spec2Model ----
(***************************************************************************)
(* Invoice-financing marketplace: the bid lifecycle of bidController.js    *)
(* over the Bid, Bill and User schemas.                                    *)
(*                                                                         *)
(* Every request handler is an async function.  Between two awaits the     *)
(* handler runs without interruption; at every await another request may   *)
(* run.  The model therefore has one action per await of a handler: the    *)
(* database operation awaited, followed by the synchronous code up to the  *)
(* next await.  A document loaded by a handler is a private copy (sbid,    *)
(* sbill, sfin, user); save() writes the paths the handler modified, with  *)
(* the values of that copy.                                                *)
(*                                                                         *)
(* Time is counted in hours.  Money is in whole currency units and bill    *)
(* amounts are multiples of 100, so amount * pct / 100 is exact.           *)
(***************************************************************************)
EXTENDS Integers, Sequences, FiniteSets, TLC

VARIABLES
    bills,      \* Bill collection: bill id -> document
    bids,       \* Bid collection: bid id -> document (domain = stored ids)
    users,      \* User collection: user id -> document
    reqs,       \* request slots: the handlers in flight and their local copies
    nextBid,    \* next fresh bid id
    started,    \* requests started so far
    last,       \* the last response sent: the handler and its outcome
    now,        \* clock, in hours
    validateFirst \* Bid.create validates the document before the
                  \* pre('save') hook has set bidAmount

vars == <<bills, bids, users, reqs, nextBid, started, last, now, validateFirst>>

db == <<bills, bids, users>>

----------------------------------------------------------------------------
(* Bounds of the model *)

MaxReqs == 3
MaxTicks == 1

(* Program constants *)

BidLifetimeHours == 24
MinPercentage == 1
MaxPercentage == 95

Slots == {1, 2}
Users == {"O1", "C1", "F1", "F2"}
Bills == {"B1", "B2"}
PctSet == {40, 70}

Null == "null"
\* a field a document or a request body does not contain; Bill.create stores
\* the schema default null for financer, so no stored bill has this value
Unset == "unset"
NoTime == -1000
NoDoc == [null |-> TRUE]

----------------------------------------------------------------------------
(* Pure helpers *)

\* (bill.amount * financingPercentage) / 100
BidAmount(amount, pct) == (amount * pct) \div 100

\* the clock advances in steps of half a bid lifetime
TickHours == BidLifetimeHours \div 2

\* expiresAt default: Date.now() + 24h
DefaultExpiresAt(t) == t + BidLifetimeHours

\* min/max validators of financingPercentage
ValidPercentage(pct) == pct >= MinPercentage /\ pct <= MaxPercentage

\* mutant: the collection has no unique index
NoUniqueIndex(b, f) == TRUE

\* unique index {bill, financer}: may a document with this pair be inserted
UniquePairFree(b, f) ==
    ~ \E i \in DOMAIN bids : bids[i].bill = b /\ bids[i].financer = f

\* mutant: the bulk rejection does not filter by bill
RejectFilterAnyBill(i, b, accepted) ==
    bids[i].status = "pending" /\ i # accepted

\* the filter of Bid.updateMany in acceptBid
RejectFilter(i, b, accepted) ==
    bids[i].bill = b /\ bids[i].status = "pending" /\ i # accepted

----------------------------------------------------------------------------
(* Request slots *)

IdleReq ==
    [kind |-> "none", pc |-> "idle", actor |-> "none", bill |-> "none",
     bid |-> 0, pct |-> 0, amount |-> 0, body |-> NoDoc,
     user |-> NoDoc, sbid |-> NoDoc, sbill |-> NoDoc, sfin |-> NoDoc]

Vacant(s) == reqs[s].pc = "idle"

\* a new request takes the first vacant slot
Free(s) ==
    /\ started < MaxReqs
    /\ Vacant(s)
    /\ \A t \in Slots : t < s => ~Vacant(t)

NewReq(k, u, b, i, p) ==
    [IdleReq EXCEPT !.kind = k, !.actor = u, !.bill = b, !.bid = i, !.pct = p]

\* the handler goes on to its next await with the locals r
Continue(s, r) == reqs' = [reqs EXCEPT ![s] = r] /\ UNCHANGED last

\* the handler k responds (res.json, next(err) or a thrown error caught by
\* catchAsync): its locals are dropped
Respond(s, k, res) ==
    /\ reqs' = [reqs EXCEPT ![s] = IdleReq]
    /\ last' = [kind |-> k, result |-> res]

\* the outcome c of a handler's checks: go on with r, or respond with the error
Checked(s, c, r) == IF c = "ok" THEN Continue(s, r) ELSE Respond(s, r.kind, c)

At(s, k, p) == reqs[s].kind = k /\ reqs[s].pc = p

\* the bid ids a request may name: every id handed out so far
BidIds == 1 .. (nextBid - 1)

\* a bill with this id is stored (findById does not return null)
Stored(b) == bills[b] # NoDoc

\* the request carries the identity of an account that can still be loaded:
\* an account with active = false is hidden from every find on users
Authenticated(u) == users[u].active

----------------------------------------------------------------------------
(* Initial state: two bills sent to the marketplace earlier, B1 due half a  *)
(* bid lifetime from now and B2 two lifetimes from now.  Where bids can be *)
(* stored, three have been placed: F2 on B1 half a lifetime ago, F1 on B1  *)
(* and on B2 just now (the state after three placeBid requests).           *)

InitBill(amt, due) ==
    [amount |-> amt, dueDate |-> due, status |-> "sent", isActive |-> TRUE,
     organization |-> "O1", customer |-> "C1", currentOwner |-> "O1",
     isInMarketplace |-> TRUE, financingPercentage |-> 0,
     financedAmount |-> 0, financer |-> Null,
     sentAt |-> 0 - BidLifetimeHours, paidAt |-> NoTime, financedAt |-> NoTime]

InitUser(r, funds, placed) ==
    [role |-> r, active |-> TRUE, availableFunds |-> funds,
     totalBidsPlaced |-> placed, totalBidsWon |-> 0,
     totalInvestmentAmount |-> 0, totalReturns |-> 0,
     totalBillsCreated |-> 0, totalBillsSent |-> 0, totalRevenue |-> 0,
     totalBillsReceived |-> 0, totalBillsPaid |-> 0, totalAmountPaid |-> 0]

InitBills ==
    [b \in Bills |->
        IF b = "B1" THEN InitBill(10000, TickHours)
        ELSE InitBill(5000, 2 * BidLifetimeHours)]

\* a bid placed at time t
InitBid(b, f, p, t) ==
    [bill |-> b, financer |-> f, financingPercentage |-> p,
     bidAmount |-> BidAmount(InitBills[b].amount, p),
     status |-> "pending", expiresAt |-> DefaultExpiresAt(t),
     acceptedAt |-> NoTime]

SeedBids ==
    <<InitBid("B1", "F1", 40, 0), InitBid("B1", "F2", 70, 0 - TickHours),
      InitBid("B2", "F1", 40, 0)>>

Init ==
    /\ validateFirst \in BOOLEAN
    /\ bills = InitBills
    /\ bids = IF validateFirst THEN << >> ELSE SeedBids
    /\ users = [u \in Users |->
                  CASE u = "O1" -> InitUser("organization", 0, 0)
                    [] u = "C1" -> InitUser("customer", 0, 0)
                    [] u = "F1" -> InitUser("financer", 5000,
                                            IF validateFirst THEN 0 ELSE 2)
                    [] OTHER    -> InitUser("financer", 7000,
                                            IF validateFirst THEN 0 ELSE 1)]
    /\ reqs = [s \in Slots |-> IdleReq]
    /\ nextBid = Len(bids) + 1
    /\ started = 0
    /\ last = [kind |-> "none", result |-> "none"]
    /\ now = 0

----------------------------------------------------------------------------
(* placeBid *)

\* the authenticated user is loaded into req.user; role check
PlaceBegin(s, u, b, p) ==
    /\ Free(s)
    /\ Authenticated(u)
    /\ started' = started + 1
    /\ IF users[u].role # "financer"
       THEN Respond(s, "place", "Forbidden")
       ELSE Continue(s, [NewReq("place", u, b, 0, p) EXCEPT
                            !.pc = "findBill", !.user = users[u]])
    /\ UNCHANGED <<db, nextBid, now, validateFirst>>

\* mutant: the funds check refuses a bid equal to the funds
PlaceCheckLe(bill, user, p, t) ==
    IF ~bill.isInMarketplace \/ bill.status # "sent" THEN "InvalidState"
    ELSE IF bill.financer # Null THEN "AlreadyFinanced"
    ELSE IF bill.dueDate <= t THEN "Overdue"
    ELSE IF user.availableFunds <= BidAmount(bill.amount, p)
         THEN "InsufficientFunds"
    ELSE "ok"

\* the availability and funds checks of placeBid on the loaded bill
PlaceCheck(bill, user, p, t) ==
    IF ~bill.isInMarketplace \/ bill.status # "sent" THEN "InvalidState"
    ELSE IF bill.financer # Null THEN "AlreadyFinanced"
    ELSE IF bill.dueDate <= t THEN "Overdue"
    ELSE IF user.availableFunds < BidAmount(bill.amount, p)
         THEN "InsufficientFunds"
    ELSE "ok"

\* Bill.findById and the checks
PlaceFindBill(s) ==
    /\ At(s, "place", "findBill")
    /\ LET r == reqs[s]
       IN IF ~Stored(r.bill)
          THEN Respond(s, "place", "NotFound")
          ELSE Checked(s, PlaceCheck(bills[r.bill], r.user, r.pct, now),
                       [r EXCEPT !.pc = "findOne"])
    /\ UNCHANGED <<db, nextBid, started, now, validateFirst>>

\* Bid.findOne({bill, financer})
PlaceFindOne(s) ==
    /\ At(s, "place", "findOne")
    /\ LET r == reqs[s]
       IN IF \E i \in DOMAIN bids :
                bids[i].bill = r.bill /\ bids[i].financer = r.actor
          THEN Respond(s, "place", "DuplicateBid")
          ELSE Continue(s, [r EXCEPT !.pc = "create"])
    /\ UNCHANGED <<db, nextBid, started, now, validateFirst>>

\* the document Bid.create stores: schema defaults and the pre('save') hook
NewBid(b, f, p, t) ==
    [bill |-> b, financer |-> f, financingPercentage |-> p,
     bidAmount |-> BidAmount(bills[b].amount, p),
     status |-> "pending", expiresAt |-> DefaultExpiresAt(t),
     acceptedAt |-> NoTime]

\* Bid.create: validation, pre('save') hooks, insert under the unique index.
\* bidAmount is required and is not in the data placeBid passes; where
\* validation runs first it is still unset.
PlaceCreate(s) ==
    /\ At(s, "place", "create")
    /\ LET r == reqs[s]
       IN IF validateFirst \/ ~ValidPercentage(r.pct)
          THEN /\ Respond(s, "place", "ValidationError")
               /\ UNCHANGED <<bids, nextBid>>
          ELSE IF ~UniquePairFree(r.bill, r.actor)
          THEN /\ Respond(s, "place", "DuplicateKey")
               /\ UNCHANGED <<bids, nextBid>>
          ELSE /\ bids' = bids @@ (nextBid :> NewBid(r.bill, r.actor, r.pct, now))
               /\ nextBid' = nextBid + 1
               /\ Continue(s, [r EXCEPT !.pc = "stats", !.bid = nextBid])
    /\ UNCHANGED <<bills, users, started, now, validateFirst>>

\* req.user.updateStats('bidPlaced'): the copy's counter + 1 is saved
PlaceStats(s) ==
    /\ At(s, "place", "stats")
    /\ LET r == reqs[s]
       IN users' = [users EXCEPT ![r.actor].totalBidsPlaced =
                        r.user.totalBidsPlaced + 1]
    /\ Respond(s, "place", "success")
    /\ UNCHANGED <<bills, bids, nextBid, started, now, validateFirst>>

----------------------------------------------------------------------------
(* updateBid *)

\* the authenticated user is loaded into req.user
UpdateBegin(s, u, i, p) ==
    /\ Free(s)
    /\ Authenticated(u)
    /\ started' = started + 1
    /\ Continue(s, [NewReq("update", u, "none", i, p) EXCEPT
                       !.pc = "findBid", !.user = users[u]])
    /\ UNCHANGED <<db, nextBid, now, validateFirst>>

\* the ownership, status and expiry checks on the loaded bid
UpdateCheckBid(bid, u, t) ==
    IF bid.financer # u THEN "Forbidden"
    ELSE IF bid.status # "pending" THEN "InvalidState"
    ELSE IF bid.expiresAt <= t THEN "Expired"
    ELSE "ok"

\* Bid.findById
UpdateFindBid(s) ==
    /\ At(s, "update", "findBid")
    /\ LET r == reqs[s]
       IN IF r.bid \notin DOMAIN bids
          THEN Respond(s, "update", "NotFound")
          ELSE Checked(s, UpdateCheckBid(bids[r.bid], r.actor, now),
                       [r EXCEPT !.pc = "findBill", !.sbid = bids[r.bid]])
    /\ UNCHANGED <<db, nextBid, started, now, validateFirst>>

\* the bill-unfinanced check and the funds check for the new percentage
UpdateCheckBill(bill, user, p) ==
    IF bill.financer # Null THEN "AlreadyFinanced"
    ELSE IF user.availableFunds < BidAmount(bill.amount, p)
         THEN "InsufficientFunds"
    ELSE "ok"

\* Bill.findById(bid.bill)
UpdateFindBill(s) ==
    /\ At(s, "update", "findBill")
    /\ LET r == reqs[s]
       IN Checked(s, UpdateCheckBill(bills[r.sbid.bill], r.user, r.pct),
                  [r EXCEPT !.pc = "write"])
    /\ UNCHANGED <<db, nextBid, started, now, validateFirst>>

\* the document after findByIdAndUpdate(id, {financingPercentage}): the update
\* is applied by the database, no pre('save') hook runs
UpdatedBid(bid, p) == [bid EXCEPT !.financingPercentage = p]

\* Bid.findByIdAndUpdate with runValidators
UpdateWrite(s) ==
    /\ At(s, "update", "write")
    /\ LET r == reqs[s]
       IN IF ~ValidPercentage(r.pct)
          THEN /\ Respond(s, "update", "ValidationError")
               /\ UNCHANGED bids
          ELSE /\ bids' = IF r.bid \in DOMAIN bids
                          THEN [bids EXCEPT ![r.bid] = UpdatedBid(@, r.pct)]
                          ELSE bids
               /\ Respond(s, "update", "success")
    /\ UNCHANGED <<bills, users, nextBid, started, now, validateFirst>>

----------------------------------------------------------------------------
(* acceptBid *)

\* mutant: acceptBid does not check who owns the bill
AcceptCheckNoOwner(bid, bill, u, t) ==
    IF bid.status # "pending" THEN "InvalidState"
    ELSE IF bid.expiresAt <= t THEN "Expired"
    ELSE IF bill.financer # Null THEN "AlreadyFinanced"
    ELSE "ok"

\* mutant: acceptBid does not check that the bill is unfinanced
AcceptCheckNoFinancer(bid, bill, u, t) ==
    IF bill.organization # u THEN "Forbidden"
    ELSE IF bid.status # "pending" THEN "InvalidState"
    ELSE IF bid.expiresAt <= t THEN "Expired"
    ELSE "ok"

\* the checks of acceptBid on the loaded bid and its populated bill
AcceptCheck(bid, bill, u, t) ==
    IF bill.organization # u THEN "Forbidden"
    ELSE IF bid.status # "pending" THEN "InvalidState"
    ELSE IF bid.expiresAt <= t THEN "Expired"
    ELSE IF bill.financer # Null THEN "AlreadyFinanced"
    ELSE "ok"

\* Bid.findById(id).populate('bill') and the checks
AcceptLoad(s, u, i) ==
    /\ Free(s)
    /\ Authenticated(u)
    /\ started' = started + 1
    /\ IF i \notin DOMAIN bids
       THEN Respond(s, "accept", "NotFound")
       ELSE Checked(s, AcceptCheck(bids[i], bills[bids[i].bill], u, now),
                    [NewReq("accept", u, bids[i].bill, i, 0) EXCEPT
                        !.pc = "saveBid", !.sbid = bids[i],
                        !.sbill = bills[bids[i].bill]])
    /\ UNCHANGED <<db, nextBid, now, validateFirst>>

\* bid.status = 'accepted'; bid.save() with the status pre('save') hook
AcceptedBid(stored, copy, t) ==
    [stored EXCEPT !.status = "accepted",
                   !.acceptedAt = IF copy.acceptedAt = NoTime THEN t
                                  ELSE stored.acceptedAt]

\* bid.save(): a document deleted meanwhile cannot be saved
AcceptSaveBid(s) ==
    /\ At(s, "accept", "saveBid")
    /\ LET r == reqs[s]
       IN IF r.bid \notin DOMAIN bids
          THEN /\ Respond(s, "accept", "Error")
               /\ UNCHANGED bids
          ELSE /\ bids' = [bids EXCEPT ![r.bid] = AcceptedBid(@, r.sbid, now)]
               /\ Continue(s, [r EXCEPT !.pc = "saveBill"])
    /\ UNCHANGED <<bills, users, nextBid, started, now, validateFirst>>

\* the financing details set on the bill; bill.save() with its pre('save') hook
FinancedBill(stored, copy, bid, t) ==
    [stored EXCEPT !.financer = bid.financer,
                   !.currentOwner = bid.financer,
                   !.status = "financed",
                   !.financingPercentage = bid.financingPercentage,
                   !.financedAmount = bid.bidAmount,
                   !.isInMarketplace = FALSE,
                   !.financedAt = IF copy.financedAt = NoTime THEN t
                                  ELSE stored.financedAt]

\* mutant: bill.save() does not validate dueDate
DueDateNotValidated(bill, t) == TRUE

\* the dueDate validator of the Bill schema, run by every bill.save()
DueDateValid(bill, t) == bill.dueDate > t

\* bill.save()
AcceptSaveBill(s) ==
    /\ At(s, "accept", "saveBill")
    /\ LET r == reqs[s]
       IN IF ~DueDateValid(r.sbill, now)
          THEN /\ Respond(s, "accept", "ValidationError")
               /\ UNCHANGED bills
          ELSE /\ bills' = [bills EXCEPT ![r.bill] =
                               FinancedBill(@, r.sbill, r.sbid, now)]
               /\ Continue(s, [r EXCEPT !.pc = "rejectOthers"])
    /\ UNCHANGED <<bids, users, nextBid, started, now, validateFirst>>

\* Bid.updateMany({bill, status: 'pending', _id: {$ne}}, {status: 'rejected'})
AcceptRejectOthers(s) ==
    /\ At(s, "accept", "rejectOthers")
    /\ LET r == reqs[s]
       IN /\ bids' = [i \in DOMAIN bids |->
                        IF RejectFilter(i, r.bill, r.bid)
                        THEN [bids[i] EXCEPT !.status = "rejected"]
                        ELSE bids[i]]
          /\ Continue(s, [r EXCEPT !.pc = "findFinancer"])
    /\ UNCHANGED <<bills, users, nextBid, started, now, validateFirst>>

\* User.findById(bid.financer): null for an account that is no longer
\* active, and financer.updateStats then throws
AcceptFindFinancer(s) ==
    /\ At(s, "accept", "findFinancer")
    /\ LET r == reqs[s]
       IN IF ~users[r.sbid.financer].active
          THEN Respond(s, "accept", "Error")
          ELSE Continue(s, [r EXCEPT !.pc = "statsWon",
                                     !.sfin = users[r.sbid.financer]])
    /\ UNCHANGED <<db, nextBid, started, now, validateFirst>>

\* financer.updateStats('bidWon')
AcceptStatsWon(s) ==
    /\ At(s, "accept", "statsWon")
    /\ LET r == reqs[s]
       IN /\ users' = [users EXCEPT ![r.sbid.financer].totalBidsWon =
                           r.sfin.totalBidsWon + 1]
          /\ Continue(s, [r EXCEPT !.pc = "statsInvested"])
    /\ UNCHANGED <<bills, bids, nextBid, started, now, validateFirst>>

\* financer.updateStats('invested', bid.bidAmount)
AcceptStatsInvested(s) ==
    /\ At(s, "accept", "statsInvested")
    /\ LET r == reqs[s]
       IN /\ users' = [users EXCEPT ![r.sbid.financer].totalInvestmentAmount =
                           r.sfin.totalInvestmentAmount + r.sbid.bidAmount]
          /\ Continue(s, [r EXCEPT !.pc = "debit"])
    /\ UNCHANGED <<bills, bids, nextBid, started, now, validateFirst>>

\* financer.financerDetails.availableFunds -= bid.bidAmount; financer.save()
AcceptDebit(s) ==
    /\ At(s, "accept", "debit")
    /\ LET r == reqs[s]
       IN users' = [users EXCEPT ![r.sbid.financer].availableFunds =
                        r.sfin.availableFunds - r.sbid.bidAmount]
    /\ Respond(s, "accept", "success")
    /\ UNCHANGED <<bills, bids, nextBid, started, now, validateFirst>>

----------------------------------------------------------------------------
(* cancelBid *)

\* the ownership and status checks of cancelBid
CancelCheck(bid, u) ==
    IF bid.financer # u THEN "Forbidden"
    ELSE IF bid.status # "pending" THEN "InvalidState"
    ELSE "ok"

\* Bid.findById and the checks
CancelLoad(s, u, i) ==
    /\ Free(s)
    /\ Authenticated(u)
    /\ started' = started + 1
    /\ IF i \notin DOMAIN bids
       THEN Respond(s, "cancel", "NotFound")
       ELSE Checked(s, CancelCheck(bids[i], u),
                    [NewReq("cancel", u, "none", i, 0) EXCEPT !.pc = "delete"])
    /\ UNCHANGED <<db, nextBid, now, validateFirst>>

\* Bid.findByIdAndDelete
CancelDelete(s) ==
    /\ At(s, "cancel", "delete")
    /\ LET r == reqs[s]
       IN bids' = [i \in DOMAIN bids \ {r.bid} |-> bids[i]]
    /\ Respond(s, "cancel", "success")
    /\ UNCHANGED <<bills, users, nextBid, started, now, validateFirst>>

----------------------------------------------------------------------------
(* sendBill *)

\* the authenticated user is loaded into req.user
SendBegin(s, u, b) ==
    /\ Free(s)
    /\ Authenticated(u)
    /\ started' = started + 1
    /\ Continue(s, [NewReq("send", u, b, 0, 0) EXCEPT
                       !.pc = "load", !.user = users[u]])
    /\ UNCHANGED <<db, nextBid, now, validateFirst>>

\* the ownership and status checks of sendBill
SendCheck(bill, u) ==
    IF bill.organization # u THEN "Forbidden"
    ELSE IF bill.status # "draft" THEN "InvalidState"
    ELSE "ok"

\* Bill.findById and the checks
SendLoad(s) ==
    /\ At(s, "send", "load")
    /\ LET r == reqs[s]
       IN IF ~Stored(r.bill)
          THEN Respond(s, "send", "NotFound")
          ELSE Checked(s, SendCheck(bills[r.bill], r.actor),
                       [r EXCEPT !.pc = "saveBill", !.sbill = bills[r.bill]])
    /\ UNCHANGED <<db, nextBid, started, now, validateFirst>>

\* bill.status = 'sent'; the status pre('save') hook: a sent bill past due
\* becomes overdue, a bill that became sent is stamped and listed
SentBill(stored, copy, t) ==
    LET st == IF copy.dueDate < t THEN "overdue" ELSE "sent"
        stamp == st = "sent" /\ copy.sentAt = NoTime
    IN [stored EXCEPT !.status = st,
                      !.sentAt = IF stamp THEN t ELSE stored.sentAt,
                      !.isInMarketplace = IF stamp THEN TRUE
                                          ELSE stored.isInMarketplace]

\* bill.save(): validation, then the hooks; a document deleted meanwhile
\* cannot be saved
SendSaveBill(s) ==
    /\ At(s, "send", "saveBill")
    /\ LET r == reqs[s]
       IN IF ~DueDateValid(r.sbill, now)
          THEN /\ Respond(s, "send", "ValidationError")
               /\ UNCHANGED bills
          ELSE IF ~Stored(r.bill)
          THEN /\ Respond(s, "send", "Error")
               /\ UNCHANGED bills
          ELSE /\ bills' = [bills EXCEPT ![r.bill] = SentBill(@, r.sbill, now)]
               /\ Continue(s, [r EXCEPT !.pc = "stats"])
    /\ UNCHANGED <<bids, users, nextBid, started, now, validateFirst>>

\* req.user.updateStats('billSent')
SendStats(s) ==
    /\ At(s, "send", "stats")
    /\ LET r == reqs[s]
       IN /\ users' = [users EXCEPT ![r.actor].totalBillsSent =
                           r.user.totalBillsSent + 1]
          /\ Continue(s, [r EXCEPT !.pc = "findCustomer"])
    /\ UNCHANGED <<bills, bids, nextBid, started, now, validateFirst>>

\* User.findById(bill.customer): null for an account no longer active, and
\* customer.updateStats then throws
SendFindCustomer(s) ==
    /\ At(s, "send", "findCustomer")
    /\ LET r == reqs[s]
       IN IF ~users[r.sbill.customer].active
          THEN Respond(s, "send", "Error")
          ELSE Continue(s, [r EXCEPT !.pc = "customerStats",
                                     !.sfin = users[r.sbill.customer]])
    /\ UNCHANGED <<db, nextBid, started, now, validateFirst>>

\* customer.updateStats('billReceived')
SendCustomerStats(s) ==
    /\ At(s, "send", "customerStats")
    /\ LET r == reqs[s]
       IN users' = [users EXCEPT ![r.sbill.customer].totalBillsReceived =
                        r.sfin.totalBillsReceived + 1]
    /\ Respond(s, "send", "success")
    /\ UNCHANGED <<bills, bids, nextBid, started, now, validateFirst>>

----------------------------------------------------------------------------
(* payBill *)

\* the authenticated user is loaded into req.user
PayBegin(s, u, b) ==
    /\ Free(s)
    /\ Authenticated(u)
    /\ started' = started + 1
    /\ Continue(s, [NewReq("pay", u, b, 0, 0) EXCEPT
                       !.pc = "load", !.user = users[u]])
    /\ UNCHANGED <<db, nextBid, now, validateFirst>>

\* the customer and status checks of payBill
PayCheck(bill, u) ==
    IF bill.customer # u THEN "Forbidden"
    ELSE IF bill.status = "paid" THEN "AlreadyPaid"
    ELSE IF bill.status \notin {"sent", "overdue", "financed"}
         THEN "InvalidState"
    ELSE "ok"

\* Bill.findById and the checks
PayLoad(s) ==
    /\ At(s, "pay", "load")
    /\ LET r == reqs[s]
       IN IF ~Stored(r.bill)
          THEN Respond(s, "pay", "NotFound")
          ELSE Checked(s, PayCheck(bills[r.bill], r.actor),
                       [r EXCEPT !.pc = "saveBill", !.sbill = bills[r.bill]])
    /\ UNCHANGED <<db, nextBid, started, now, validateFirst>>

\* bill.status = 'paid'; the status pre('save') hook stamps paidAt and takes
\* the bill out of the marketplace
PaidBill(stored, copy, t) ==
    LET stamp == copy.paidAt = NoTime
    IN [stored EXCEPT !.status = "paid",
                      !.paidAt = IF stamp THEN t ELSE stored.paidAt,
                      !.isActive = IF stamp THEN FALSE ELSE stored.isActive,
                      !.isInMarketplace = IF stamp THEN FALSE
                                          ELSE stored.isInMarketplace]

\* bill.save(): validation, then the hooks; a document deleted meanwhile
\* cannot be saved
PaySaveBill(s) ==
    /\ At(s, "pay", "saveBill")
    /\ LET r == reqs[s]
       IN IF ~DueDateValid(r.sbill, now)
          THEN /\ Respond(s, "pay", "ValidationError")
               /\ UNCHANGED bills
          ELSE IF ~Stored(r.bill)
          THEN /\ Respond(s, "pay", "Error")
               /\ UNCHANGED bills
          ELSE /\ bills' = [bills EXCEPT ![r.bill] = PaidBill(@, r.sbill, now)]
               /\ Continue(s, [r EXCEPT !.pc = "statsPaid"])
    /\ UNCHANGED <<bids, users, nextBid, started, now, validateFirst>>

\* req.user.updateStats('billPaid')
PayStatsPaid(s) ==
    /\ At(s, "pay", "statsPaid")
    /\ LET r == reqs[s]
       IN /\ users' = [users EXCEPT ![r.actor].totalBillsPaid =
                           r.user.totalBillsPaid + 1]
          /\ Continue(s, [r EXCEPT !.pc = "statsAmount"])
    /\ UNCHANGED <<bills, bids, nextBid, started, now, validateFirst>>

\* req.user.updateStats('amountPaid', bill.amount)
PayStatsAmount(s) ==
    /\ At(s, "pay", "statsAmount")
    /\ LET r == reqs[s]
       IN /\ users' = [users EXCEPT ![r.actor].totalAmountPaid =
                           r.user.totalAmountPaid + r.sbill.amount]
          /\ Continue(s, [r EXCEPT !.pc = "findOwner"])
    /\ UNCHANGED <<bills, bids, nextBid, started, now, validateFirst>>

\* User.findById(bill.currentOwner): null for an account no longer active,
\* and owner.role then throws
PayFindOwner(s) ==
    /\ At(s, "pay", "findOwner")
    /\ LET r == reqs[s]
       IN IF ~users[r.sbill.currentOwner].active
          THEN Respond(s, "pay", "Error")
          ELSE Continue(s, [r EXCEPT !.pc = "ownerStats",
                                     !.sfin = users[r.sbill.currentOwner]])
    /\ UNCHANGED <<db, nextBid, started, now, validateFirst>>

\* owner.updateStats('revenueEarned', amount) for an organization,
\* owner.updateStats('returnsEarned', amount - financedAmount) for a financer
PayOwnerStats(s) ==
    /\ At(s, "pay", "ownerStats")
    /\ LET r == reqs[s]
           o == r.sbill.currentOwner
       IN users' =
             IF r.sfin.role = "organization"
             THEN [users EXCEPT ![o].totalRevenue =
                      r.sfin.totalRevenue + r.sbill.amount]
             ELSE IF r.sfin.role = "financer"
             THEN [users EXCEPT ![o].totalReturns =
                      r.sfin.totalReturns
                         + (r.sbill.amount - r.sbill.financedAmount)]
             ELSE users
    /\ Respond(s, "pay", "success")
    /\ UNCHANGED <<bills, bids, nextBid, started, now, validateFirst>>

----------------------------------------------------------------------------
(* addFunds and deleteMe *)

\* the amounts a request may name
FundAmounts == {0, 1000}

\* the authenticated user is loaded into req.user; role and amount checks
AddFundsBegin(s, u, a) ==
    /\ Free(s)
    /\ Authenticated(u)
    /\ started' = started + 1
    /\ IF users[u].role # "financer"
       THEN Respond(s, "addFunds", "Forbidden")
       ELSE IF a <= 0
       THEN Respond(s, "addFunds", "ValidationError")
       ELSE Continue(s, [NewReq("addFunds", u, "none", 0, 0) EXCEPT
                            !.pc = "save", !.amount = a, !.user = users[u]])
    /\ UNCHANGED <<db, nextBid, now, validateFirst>>

\* req.user.financerDetails.availableFunds += amount; save without validation
AddFundsSave(s) ==
    /\ At(s, "addFunds", "save")
    /\ LET r == reqs[s]
       IN users' = [users EXCEPT ![r.actor].availableFunds =
                        r.user.availableFunds + r.amount]
    /\ Respond(s, "addFunds", "success")
    /\ UNCHANGED <<bills, bids, nextBid, started, now, validateFirst>>

\* deleteMe: User.findByIdAndUpdate(req.user.id, {active: false})
DeleteMe(s, u) ==
    /\ Free(s)
    /\ Authenticated(u)
    /\ started' = started + 1
    /\ users' = [users EXCEPT ![u].active = FALSE]
    /\ Respond(s, "deleteMe", "success")
    /\ UNCHANGED <<bills, bids, nextBid, now, validateFirst>>

----------------------------------------------------------------------------
(* updateProfile *)

\* the default of financerDetails.availableFunds, read when the field is
\* not stored
DefaultAvailableFunds == 0

\* the request bodies of updateProfile: the top-level keys present and the
\* keys inside financerDetails
ProfileBodies ==
    {[keys |-> {"name"}, details |-> {}],
     [keys |-> {"name", "financerDetails"}, details |-> {"companyName"}],
     [keys |-> {"financerDetails"},
      details |-> {"companyName", "availableFunds"}]}

\* roleSpecificData for a financer: financerDetails without availableFunds
OtherFinancerDetails(body) == body.details \ {"availableFunds"}

\* does the update document of updateProfile set financerDetails
SetsFinancerDetails(role, body) ==
    role = "financer" /\ "financerDetails" \in body.keys

\* User.findByIdAndUpdate(userId, updateData): a financerDetails key replaces
\* the stored financerDetails object by otherFinancerDetails, which holds no
\* availableFunds
UpdateProfile(s, u, body) ==
    /\ Free(s)
    /\ Authenticated(u)
    /\ started' = started + 1
    /\ users' = IF SetsFinancerDetails(users[u].role, body)
                    /\ "availableFunds" \notin OtherFinancerDetails(body)
                 THEN [users EXCEPT ![u].availableFunds = DefaultAvailableFunds]
                 ELSE users
    /\ Respond(s, "updateProfile", "success")
    /\ UNCHANGED <<bills, bids, nextBid, now, validateFirst>>

----------------------------------------------------------------------------
(* createBill, updateBill, deleteBill *)

\* the fields a client is meant to send to createBill
PlainKeys == {"customer", "amount", "dueDate"}

\* fields of the financing state a request body may name as well
ForgedKeys == {"status", "financer", "financedAmount", "isInMarketplace"}

\* the request bodies of createBill: the keys present and their values
CreateBodies ==
    {[keys |-> k, customer |-> c, amount |-> InitBills["B2"].amount,
      dueDate |-> TickHours, status |-> "financed", financer |-> "F1",
      financedAmount |-> 1000, isInMarketplace |-> TRUE] :
        c \in {"C1", "F1"}, k \in {PlainKeys, PlainKeys \cup ForgedKeys}}

\* the authenticated user is loaded into req.user; role check
CreateBegin(s, u, body) ==
    /\ Free(s)
    /\ Authenticated(u)
    /\ started' = started + 1
    /\ IF users[u].role # "organization"
       THEN Respond(s, "create", "Forbidden")
       ELSE Continue(s, [NewReq("create", u, "none", 0, 0) EXCEPT
                            !.pc = "findCustomer", !.body = body,
                            !.user = users[u]])
    /\ UNCHANGED <<db, nextBid, now, validateFirst>>

\* User.findById(req.body.customer) and the customer check
CreateFindCustomer(s) ==
    /\ At(s, "create", "findCustomer")
    /\ LET r == reqs[s]
           c == r.body.customer
       IN IF ~users[c].active \/ users[c].role # "customer"
          THEN Respond(s, "create", "InvalidReference")
          ELSE Continue(s, [r EXCEPT !.pc = "createBill"])
    /\ UNCHANGED <<db, nextBid, started, now, validateFirst>>

\* the document Bill.create stores for {...req.body, organization,
\* currentOwner, billNumber}: schema defaults, then the pre('save') hooks
NewBill(body, org, t) ==
    LET given == IF "status" \in body.keys THEN body.status ELSE "draft"
        st == IF given = "sent" /\ body.dueDate < t THEN "overdue" ELSE given
        listed == IF "isInMarketplace" \in body.keys
                  THEN body.isInMarketplace ELSE FALSE
    IN [amount |-> body.amount, dueDate |-> body.dueDate, status |-> st,
        isActive |-> st # "paid",
        organization |-> org, customer |-> body.customer,
        currentOwner |-> org,
        isInMarketplace |-> IF st = "sent" THEN TRUE
                            ELSE IF st = "paid" THEN FALSE ELSE listed,
        financingPercentage |-> 0,
        financedAmount |-> IF "financedAmount" \in body.keys
                           THEN body.financedAmount ELSE 0,
        financer |-> IF "financer" \in body.keys THEN body.financer
                     ELSE Null,
        sentAt |-> IF st = "sent" THEN t ELSE NoTime,
        paidAt |-> IF st = "paid" THEN t ELSE NoTime,
        financedAt |-> IF st = "financed" THEN t ELSE NoTime]

\* Bill.create: validation, hooks, insert under a fresh id
CreateBill(s) ==
    /\ At(s, "create", "createBill")
    /\ \E b \in Bills : ~Stored(b)
    /\ LET r == reqs[s]
           b == CHOOSE x \in Bills : ~Stored(x)
       IN IF ~DueDateValid(r.body, now)
          THEN /\ Respond(s, "create", "ValidationError")
               /\ UNCHANGED bills
          ELSE /\ bills' = [bills EXCEPT ![b] = NewBill(r.body, r.actor, now)]
               /\ Continue(s, [r EXCEPT !.pc = "stats", !.bill = b])
    /\ UNCHANGED <<bids, users, nextBid, started, now, validateFirst>>

\* req.user.updateStats('billCreated')
CreateStats(s) ==
    /\ At(s, "create", "stats")
    /\ LET r == reqs[s]
       IN users' = [users EXCEPT ![r.actor].totalBillsCreated =
                        r.user.totalBillsCreated + 1]
    /\ Respond(s, "create", "success")
    /\ UNCHANGED <<bills, bids, nextBid, started, now, validateFirst>>

\* the ownership and status checks of updateBill and of deleteBill
DraftCheck(bill, u) ==
    IF bill.organization # u THEN "Forbidden"
    ELSE IF bill.status # "draft" THEN "InvalidState"
    ELSE "ok"

\* the request bodies of updateBill: the keys present and their values
UpdateBodies ==
    {[keys |-> {"amount"}, amount |-> 8000,
      dueDate |-> 2 * BidLifetimeHours, status |-> "paid"],
     [keys |-> {"dueDate", "status"}, amount |-> 8000,
      dueDate |-> 2 * BidLifetimeHours, status |-> "paid"]}

\* only title, description, amount, dueDate and customer are taken from the
\* body
AllowedFields(body) ==
    [body EXCEPT !.keys = @ \cap {"amount", "dueDate", "customer"}]

\* Bill.findById and the checks of updateBill
UpdateBillLoad(s, u, b, body) ==
    /\ Free(s)
    /\ Authenticated(u)
    /\ started' = started + 1
    /\ IF ~Stored(b)
       THEN Respond(s, "updateBill", "NotFound")
       ELSE Checked(s, DraftCheck(bills[b], u),
                    [NewReq("updateBill", u, b, 0, 0) EXCEPT
                        !.pc = "write", !.body = AllowedFields(body)])
    /\ UNCHANGED <<db, nextBid, now, validateFirst>>

\* the document after findByIdAndUpdate(id, updateData)
UpdatedBill(stored, upd) ==
    [stored EXCEPT
        !.amount = IF "amount" \in upd.keys THEN upd.amount ELSE @,
        !.dueDate = IF "dueDate" \in upd.keys THEN upd.dueDate ELSE @,
        !.status = IF "status" \in upd.keys THEN upd.status ELSE @]

\* Bill.findByIdAndUpdate with runValidators
UpdateBillWrite(s) ==
    /\ At(s, "updateBill", "write")
    /\ LET r == reqs[s]
       IN IF "dueDate" \in r.body.keys /\ ~DueDateValid(r.body, now)
          THEN /\ Respond(s, "updateBill", "ValidationError")
               /\ UNCHANGED bills
          ELSE /\ bills' = IF Stored(r.bill)
                           THEN [bills EXCEPT ![r.bill] =
                                    UpdatedBill(@, r.body)]
                           ELSE bills
               /\ Respond(s, "updateBill", "success")
    /\ UNCHANGED <<bids, users, nextBid, started, now, validateFirst>>

\* Bill.findById and the checks of deleteBill
DeleteBillLoad(s, u, b) ==
    /\ Free(s)
    /\ Authenticated(u)
    /\ started' = started + 1
    /\ IF ~Stored(b)
       THEN Respond(s, "deleteBill", "NotFound")
       ELSE Checked(s, DraftCheck(bills[b], u),
                    [NewReq("deleteBill", u, b, 0, 0) EXCEPT !.pc = "delete"])
    /\ UNCHANGED <<db, nextBid, now, validateFirst>>

\* Bill.findByIdAndDelete
DeleteBillDelete(s) ==
    /\ At(s, "deleteBill", "delete")
    /\ bills' = [bills EXCEPT ![reqs[s].bill] = NoDoc]
    /\ Respond(s, "deleteBill", "success")
    /\ UNCHANGED <<bids, users, nextBid, started, now, validateFirst>>

----------------------------------------------------------------------------
(* the clock *)

Tick ==
    /\ now < MaxTicks * TickHours
    /\ now' = now + TickHours
    /\ UNCHANGED <<db, reqs, nextBid, started, last, validateFirst>>

----------------------------------------------------------------------------

Next ==
    \/ \E s \in Slots, u \in Users, b \in Bills, p \in PctSet :
          PlaceBegin(s, u, b, p)
    \/ \E s \in Slots : PlaceFindBill(s)
    \/ \E s \in Slots : PlaceFindOne(s)
    \/ \E s \in Slots : PlaceCreate(s)
    \/ \E s \in Slots : PlaceStats(s)
    \/ \E s \in Slots, u \in Users, i \in BidIds, p \in PctSet :
          UpdateBegin(s, u, i, p)
    \/ \E s \in Slots : UpdateFindBid(s)
    \/ \E s \in Slots : UpdateFindBill(s)
    \/ \E s \in Slots : UpdateWrite(s)
    \/ \E s \in Slots, u \in Users, i \in BidIds : AcceptLoad(s, u, i)
    \/ \E s \in Slots : AcceptSaveBid(s)
    \/ \E s \in Slots : AcceptSaveBill(s)
    \/ \E s \in Slots : AcceptRejectOthers(s)
    \/ \E s \in Slots : AcceptFindFinancer(s)
    \/ \E s \in Slots : AcceptStatsWon(s)
    \/ \E s \in Slots : AcceptStatsInvested(s)
    \/ \E s \in Slots : AcceptDebit(s)
    \/ \E s \in Slots, u \in Users, i \in BidIds : CancelLoad(s, u, i)
    \/ \E s \in Slots : CancelDelete(s)
    \/ Tick

Spec == Init /\ [][Next]_vars

----------------------------------------------------------------------------
(* The bill lifecycle: sendBill, payBill and acceptBid with addFunds and    *)
(* deleteMe.  B1 was sent two bid lifetimes ago and is due in a quarter of *)
(* a lifetime; B2 is a draft due in half a lifetime.  Where bids can be    *)
(* stored, F1 has bid on B1 just now and F2 three quarters of a lifetime   *)
(* ago.                                                                    *)

QuarterHours == TickHours \div 2

\* a bill as createBill stores it
DraftBill(amt, due) ==
    [InitBill(amt, due) EXCEPT !.status = "draft", !.isInMarketplace = FALSE,
                               !.sentAt = NoTime]

LifecycleBills ==
    [b \in Bills |->
        IF b = "B1"
        THEN [InitBill(InitBills[b].amount, QuarterHours) EXCEPT
                 !.sentAt = 0 - 2 * BidLifetimeHours]
        ELSE DraftBill(InitBills[b].amount, TickHours)]

LifecycleBids ==
    <<InitBid("B1", "F1", 40, 0),
      InitBid("B1", "F2", 70, QuarterHours - BidLifetimeHours)>>

LifecycleInit ==
    /\ validateFirst \in BOOLEAN
    /\ bills = LifecycleBills
    /\ bids = IF validateFirst THEN << >> ELSE LifecycleBids
    /\ users = [u \in Users |->
                  CASE u = "O1" -> [InitUser("organization", 0, 0) EXCEPT
                                       !.totalBillsSent = 1]
                    [] u = "C1" -> [InitUser("customer", 0, 0) EXCEPT
                                       !.totalBillsReceived = 1]
                    [] u = "F1" -> InitUser("financer", 5000,
                                            IF validateFirst THEN 0 ELSE 1)
                    [] OTHER    -> InitUser("financer", 7000,
                                            IF validateFirst THEN 0 ELSE 1)]
    /\ reqs = [s \in Slots |-> IdleReq]
    /\ nextBid = Len(bids) + 1
    /\ started = 0
    /\ last = [kind |-> "none", result |-> "none"]
    /\ now = 0

LifecycleNext ==
    \/ \E s \in Slots, u \in Users, b \in Bills : SendBegin(s, u, b)
    \/ \E s \in Slots : SendLoad(s)
    \/ \E s \in Slots : SendSaveBill(s)
    \/ \E s \in Slots : SendStats(s)
    \/ \E s \in Slots : SendFindCustomer(s)
    \/ \E s \in Slots : SendCustomerStats(s)
    \/ \E s \in Slots, u \in Users, b \in Bills : PayBegin(s, u, b)
    \/ \E s \in Slots : PayLoad(s)
    \/ \E s \in Slots : PaySaveBill(s)
    \/ \E s \in Slots : PayStatsPaid(s)
    \/ \E s \in Slots : PayStatsAmount(s)
    \/ \E s \in Slots : PayFindOwner(s)
    \/ \E s \in Slots : PayOwnerStats(s)
    \/ \E s \in Slots, u \in Users, i \in BidIds : AcceptLoad(s, u, i)
    \/ \E s \in Slots : AcceptSaveBid(s)
    \/ \E s \in Slots : AcceptSaveBill(s)
    \/ \E s \in Slots : AcceptRejectOthers(s)
    \/ \E s \in Slots : AcceptFindFinancer(s)
    \/ \E s \in Slots : AcceptStatsWon(s)
    \/ \E s \in Slots : AcceptStatsInvested(s)
    \/ \E s \in Slots : AcceptDebit(s)
    \/ \E s \in Slots, u \in Users, a \in FundAmounts : AddFundsBegin(s, u, a)
    \/ \E s \in Slots : AddFundsSave(s)
    \/ \E s \in Slots, u \in Users : DeleteMe(s, u)
    \/ Tick

LifecycleSpec == LifecycleInit /\ [][LifecycleNext]_vars

----------------------------------------------------------------------------
(* Draft bills: createBill, updateBill, deleteBill and sendBill.  O1 has   *)
(* created the draft B1, due in half a bid lifetime; no second bill is     *)
(* stored yet.                                                             *)

DraftInit ==
    /\ validateFirst \in BOOLEAN
    /\ bills = [b \in Bills |->
                  IF b = "B1" THEN DraftBill(InitBills[b].amount, TickHours)
                  ELSE NoDoc]
    /\ bids = << >>
    /\ users = [u \in Users |->
                  CASE u = "O1" -> [InitUser("organization", 0, 0) EXCEPT
                                       !.totalBillsCreated = 1]
                    [] u = "C1" -> InitUser("customer", 0, 0)
                    [] u = "F1" -> InitUser("financer", 5000, 0)
                    [] OTHER    -> InitUser("financer", 7000, 0)]
    /\ reqs = [s \in Slots |-> IdleReq]
    /\ nextBid = 1
    /\ started = 0
    /\ last = [kind |-> "none", result |-> "none"]
    /\ now = 0

DraftNext ==
    \/ \E s \in Slots, u \in Users, body \in CreateBodies :
          CreateBegin(s, u, body)
    \/ \E s \in Slots : CreateFindCustomer(s)
    \/ \E s \in Slots : CreateBill(s)
    \/ \E s \in Slots : CreateStats(s)
    \/ \E s \in Slots, u \in Users, b \in Bills, body \in UpdateBodies :
          UpdateBillLoad(s, u, b, body)
    \/ \E s \in Slots : UpdateBillWrite(s)
    \/ \E s \in Slots, u \in Users, b \in Bills : DeleteBillLoad(s, u, b)
    \/ \E s \in Slots : DeleteBillDelete(s)
    \/ \E s \in Slots, u \in Users, b \in Bills : SendBegin(s, u, b)
    \/ \E s \in Slots : SendLoad(s)
    \/ \E s \in Slots : SendSaveBill(s)
    \/ \E s \in Slots : SendStats(s)
    \/ \E s \in Slots : SendFindCustomer(s)
    \/ \E s \in Slots : SendCustomerStats(s)
    \/ Tick

DraftSpec == DraftInit /\ [][DraftNext]_vars

----------------------------------------------------------------------------
(* Requests served one at a time, over every handler: a single slot is     *)
(* used, so a request starts only when the one before has responded.  B1   *)
(* is in the marketplace with the bids of F1 and F2; no second bill is     *)
(* stored yet.                                                             *)

SerialSlot == 1

SerialBids ==
    <<InitBid("B1", "F1", 40, 0), InitBid("B1", "F2", 70, 0 - TickHours)>>

SerialInit ==
    /\ validateFirst \in BOOLEAN
    /\ bills = [b \in Bills |-> IF b = "B1" THEN InitBills[b] ELSE NoDoc]
    /\ bids = IF validateFirst THEN << >> ELSE SerialBids
    /\ users = [u \in Users |->
                  CASE u = "O1" -> [InitUser("organization", 0, 0) EXCEPT
                                       !.totalBillsCreated = 1,
                                       !.totalBillsSent = 1]
                    [] u = "C1" -> [InitUser("customer", 0, 0) EXCEPT
                                       !.totalBillsReceived = 1]
                    [] u = "F1" -> InitUser("financer", 5000,
                                            IF validateFirst THEN 0 ELSE 1)
                    [] OTHER    -> InitUser("financer", 7000,
                                            IF validateFirst THEN 0 ELSE 1)]
    /\ reqs = [s \in Slots |-> IdleReq]
    /\ nextBid = Len(bids) + 1
    /\ started = 0
    /\ last = [kind |-> "none", result |-> "none"]
    /\ now = 0

SerialNext ==
    \/ \E u \in Users, body \in CreateBodies :
          CreateBegin(SerialSlot, u, body)
    \/ CreateFindCustomer(SerialSlot)
    \/ CreateBill(SerialSlot)
    \/ CreateStats(SerialSlot)
    \/ \E u \in Users, b \in Bills, body \in UpdateBodies :
          UpdateBillLoad(SerialSlot, u, b, body)
    \/ UpdateBillWrite(SerialSlot)
    \/ \E u \in Users, b \in Bills : DeleteBillLoad(SerialSlot, u, b)
    \/ DeleteBillDelete(SerialSlot)
    \/ \E u \in Users, b \in Bills : SendBegin(SerialSlot, u, b)
    \/ SendLoad(SerialSlot)
    \/ SendSaveBill(SerialSlot)
    \/ SendStats(SerialSlot)
    \/ SendFindCustomer(SerialSlot)
    \/ SendCustomerStats(SerialSlot)
    \/ \E u \in Users, b \in Bills : PayBegin(SerialSlot, u, b)
    \/ PayLoad(SerialSlot)
    \/ PaySaveBill(SerialSlot)
    \/ PayStatsPaid(SerialSlot)
    \/ PayStatsAmount(SerialSlot)
    \/ PayFindOwner(SerialSlot)
    \/ PayOwnerStats(SerialSlot)
    \/ \E u \in Users, b \in Bills, p \in PctSet :
          PlaceBegin(SerialSlot, u, b, p)
    \/ PlaceFindBill(SerialSlot)
    \/ PlaceFindOne(SerialSlot)
    \/ PlaceCreate(SerialSlot)
    \/ PlaceStats(SerialSlot)
    \/ \E u \in Users, i \in BidIds, p \in PctSet :
          UpdateBegin(SerialSlot, u, i, p)
    \/ UpdateFindBid(SerialSlot)
    \/ UpdateFindBill(SerialSlot)
    \/ UpdateWrite(SerialSlot)
    \/ \E u \in Users, i \in BidIds : AcceptLoad(SerialSlot, u, i)
    \/ AcceptSaveBid(SerialSlot)
    \/ AcceptSaveBill(SerialSlot)
    \/ AcceptRejectOthers(SerialSlot)
    \/ AcceptFindFinancer(SerialSlot)
    \/ AcceptStatsWon(SerialSlot)
    \/ AcceptStatsInvested(SerialSlot)
    \/ AcceptDebit(SerialSlot)
    \/ \E u \in Users, i \in BidIds : CancelLoad(SerialSlot, u, i)
    \/ CancelDelete(SerialSlot)
    \/ Tick

SerialSpec == SerialInit /\ [][SerialNext]_vars

\* the bid handlers together with addFunds
FundsNext ==
    \/ Next
    \/ \E s \in Slots, u \in Users, a \in FundAmounts : AddFundsBegin(s, u, a)
    \/ \E s \in Slots : AddFundsSave(s)

FundsSpec == Init /\ [][FundsNext]_vars

\* the bid handlers together with addFunds and updateProfile
ProfileNext ==
    \/ FundsNext
    \/ \E s \in Slots, u \in Users, body \in ProfileBodies :
          UpdateProfile(s, u, body)

ProfileSpec == Init /\ [][ProfileNext]_vars

----------------------------------------------------------------------------
(* Queries *)

\* mutant: the active-bids query does not filter by expiry
ActiveFilterNoExpiry(bid, b, t) == bid.bill = b /\ bid.status = "pending"

\* the filter of Bid.getActiveBids
ActiveFilter(bid, b, t) ==
    bid.bill = b /\ bid.status = "pending" /\ bid.expiresAt > t

\* mutant: the sort is ascending
SortsAscending(p, q) == p <= q

\* sort({financingPercentage: -1}): a bid with percentage p may come before
\* one with percentage q; bids with equal percentages come in either order
SortsBefore(p, q) == p >= q

\* the filter of Bid.findHighestBid
HighestFilter(bid, b, t) ==
    bid.bill = b /\ bid.status = "pending" /\ bid.expiresAt > t

\* Bid.getActiveBids(billId), as the set of bids returned
getActiveBids(b, t) == {i \in DOMAIN bids : ActiveFilter(bids[i], b, t)}

\* Bid.findHighestBid(billId): the results findOne may return after the sort
\* by financingPercentage descending; 0 stands for null
findHighestBid(b, t) ==
    LET found == {i \in DOMAIN bids : HighestFilter(bids[i], b, t)}
    IN IF found = {} THEN {0}
       ELSE {i \in found :
                \A j \in found :
                   SortsBefore(bids[i].financingPercentage,
                               bids[j].financingPercentage)}

\* the filter of getMarketplaceBills; {$exists: false} matches a document
\* that does not contain the field
MarketplaceFilter(bill, t) ==
    /\ bill.isInMarketplace
    /\ bill.status = "sent"
    /\ bill.dueDate > t
    /\ bill.financer = Unset

\* getMarketplaceBills: the bills listed
getMarketplaceBills(t) == {b \in Bills : MarketplaceFilter(bills[b], t)}

\* getBill: the document returned is the stored one
getBill(b) == bills[b]

\* the role filter of getMyBills and getBillsByStatus
MyBillsFilter(bill, u) ==
    CASE users[u].role = "organization" -> bill.organization = u
      [] users[u].role = "customer" -> bill.customer = u
      [] users[u].role = "financer" -> bill.financer = u
      [] OTHER -> TRUE

\* getBillsByStatus: the bills listed for the user under a status
getBillsByStatus(u, st) ==
    {b \in Bills : bills[b].status = st /\ MyBillsFilter(bills[b], u)}

----------------------------------------------------------------------------
(* Properties *)

BidsOn(b) == {i \in DOMAIN bids : bids[i].bill = b}

AcceptedOn(b) == {i \in BidsOn(b) : bids[i].status = "accepted"}

\* in this step the handler k in slot s responds with res
Answers(s, k, res) ==
    reqs'[s] = IdleReq /\ last' = [kind |-> k, result |-> res]

\* the last response was res, from handler k
Answered(k, res) == last = [kind |-> k, result |-> res]

\* C1: Accept is atomic for readers: no state shows a bid stored accepted
\* while its bill has no financer or is not financed, nor a financed bill
\* with a competing bid still pending or whose winner's won-bids counter
\* does not yet count the acceptance.
C1_AcceptAtomic ==
    /\ \A i \in DOMAIN bids :
          bids[i].status = "accepted" =>
             /\ bills[bids[i].bill].financer # Null
             /\ bills[bids[i].bill].status = "financed"
    /\ \A b \in Bills :
          bills[b].status = "financed" =>
             /\ \A i \in BidsOn(b) : bids[i].status # "pending"
             /\ users[bills[b].financer].totalBidsWon >= 1

\* C2: at most one bid of a bill is ever stored accepted.
C2_OneAcceptedPerBill == \A b \in Bills : Cardinality(AcceptedOn(b)) <= 1

\* C3: once a bill has a financer, its financer and currentOwner never
\* change again.
C3_FinancerStable ==
    [][\A b \in Bills :
          bills[b].financer # Null =>
             /\ bills'[b].financer = bills[b].financer
             /\ bills'[b].currentOwner = bills[b].currentOwner]_vars

\* an Accept request by the owner on a bid i of a bill that is already
\* financed, i not being the bid that financed it
AcceptOnFinanced(s, u, i) ==
    /\ AcceptLoad(s, u, i)
    /\ i \in DOMAIN bids
    /\ bills[bids[i].bill].organization = u
    /\ bills[bids[i].bill].financer # Null
    /\ bids[i].status # "accepted"

\* C4 as stated: after a bill has been financed, every Accept by the owner
\* on another bid of the bill fails with AlreadyFinanced and changes nothing.
C4_AlwaysAlreadyFinanced ==
    [][\A s \in Slots, u \in Users, i \in BidIds :
          AcceptOnFinanced(s, u, i) =>
             /\ Answers(s, "accept", "AlreadyFinanced")
             /\ UNCHANGED db]_vars

\* C4 amended: such an Accept always fails and changes nothing; the error is
\* InvalidState when the bid's stored status is not pending, Expired when it
\* is pending with expiresAt <= now, and AlreadyFinanced otherwise.
C4_FailsByCheckOrder ==
    [][\A s \in Slots, u \in Users, i \in BidIds :
          AcceptOnFinanced(s, u, i) =>
             /\ Answers(s, "accept",
                        IF bids[i].status # "pending" THEN "InvalidState"
                        ELSE IF bids[i].expiresAt <= now THEN "Expired"
                        ELSE "AlreadyFinanced")
             /\ UNCHANGED db]_vars

\* C4 witness: an Accept on a still pending, unexpired bid of a financed
\* bill was refused with AlreadyFinanced.
C4_Witness ==
    /\ Answered("accept", "AlreadyFinanced")
    /\ \E i \in DOMAIN bids :
          /\ bids[i].status = "pending"
          /\ bills[bids[i].bill].financer # Null

\* C5: every financed bill has financedAmount = amount * pct / 100.
C5_FinancedAmount ==
    \A b \in Bills :
       bills[b].status = "financed" =>
          bills[b].financedAmount =
             BidAmount(bills[b].amount, bills[b].financingPercentage)

\* C6: every stored bid has bidAmount = bill.amount * pct / 100.
C6_BidAmount ==
    \A i \in DOMAIN bids :
       bids[i].bidAmount =
          BidAmount(bills[bids[i].bill].amount, bids[i].financingPercentage)

\* a bid of this financer on this bill is stored
PairStored(b, f) ==
    \E i \in DOMAIN bids : bids[i].bill = b /\ bids[i].financer = f

Eligible(bill) ==
    /\ bill.isInMarketplace
    /\ bill.status = "sent"
    /\ bill.financer = Null
    /\ bill.dueDate > now

AcceptStep(s) == reqs[s].kind = "accept" /\ reqs'[s] # reqs[s]

\* C9: the bulk rejection of an Accept of bid B on bill X turns every other
\* bid on X stored pending into rejected, and an Accept changes no other
\* field of any other bid, no non-pending bid of X and no bid of another bill.
C9_RejectOthersFrame ==
    [][\A s \in Slots :
          AcceptStep(s) =>
             \A i \in DOMAIN bids \ {reqs[s].bid} :
                /\ i \in DOMAIN bids'
                /\ bids'[i] =
                      IF /\ reqs[s].pc = "rejectOthers"
                         /\ bids[i].bill = reqs[s].bill
                         /\ bids[i].status = "pending"
                      THEN [bids[i] EXCEPT !.status = "rejected"]
                      ELSE bids[i]]_vars

\* C9 witness: an Accept has run its bulk rejection: a competing bid on the
\* bill is rejected and a bid on the other bill is still pending.
C9_Witness ==
    \E s \in Slots :
       /\ At(s, "accept", "findFinancer")
       /\ \E i \in DOMAIN bids :
             i # reqs[s].bid /\ bids[i].bill = reqs[s].bill
                /\ bids[i].status = "rejected"
       /\ \E j \in DOMAIN bids :
             bids[j].bill # reqs[s].bill /\ bids[j].status = "pending"

\* C10: a Place that passed its checks and finds no bid of its pair stored
\* creates exactly one bid, pending, with bidAmount = amount * pct / 100 and
\* expiresAt = now + 24h, then adds exactly 1 to the financer's bids-placed
\* counter and succeeds.
C10_PlaceSucceeds ==
    [][\A s \in Slots :
          /\ (PlaceCreate(s) /\ ~PairStored(reqs[s].bill, reqs[s].actor)) =>
                /\ reqs'[s].pc = "stats"
                /\ DOMAIN bids' = DOMAIN bids \cup {reqs'[s].bid}
                /\ reqs'[s].bid \notin DOMAIN bids
                /\ bids'[reqs'[s].bid] =
                      [bill |-> reqs[s].bill, financer |-> reqs[s].actor,
                       financingPercentage |-> reqs[s].pct,
                       bidAmount |->
                          (bills[reqs[s].bill].amount * reqs[s].pct) \div 100,
                       status |-> "pending",
                       expiresAt |-> now + BidLifetimeHours,
                       acceptedAt |-> NoTime]
          /\ PlaceStats(s) =>
                /\ Answers(s, "place", "success")
                /\ users'[reqs[s].actor].totalBidsPlaced =
                      users[reqs[s].actor].totalBidsPlaced + 1]_vars

\* in this step the Accept in slot s, past its checks, ends in an error
AcceptFails(s) ==
    /\ AcceptStep(s)
    /\ reqs'[s] = IdleReq
    /\ last'.kind = "accept" /\ last'.result # "success"

\* C11: an Accept that ends in an error after its checks leaves its bid
\* pending, its bill unfinanced, sent and in the marketplace, and no bid of
\* the bill rejected.
C11_AcceptAllOrNothing ==
    [][\A s \in Slots :
          AcceptFails(s) =>
             /\ reqs[s].bid \in DOMAIN bids' =>
                   bids'[reqs[s].bid].status = "pending"
             /\ bills'[reqs[s].bill].financer = Null
             /\ bills'[reqs[s].bill].status = "sent"
             /\ bills'[reqs[s].bill].isInMarketplace
             /\ \A i \in DOMAIN bids' :
                   bids'[i].bill = reqs[s].bill =>
                      bids'[i].status # "rejected"]_vars

\* C12: every user's availableFunds is >= 0 in every reachable state.
C12_FundsNonNegative == \A u \in Users : users[u].availableFunds >= 0

\* C13: paid is terminal: a bill stored paid stays paid, inactive and out of
\* the marketplace in every later state.
C13_PaidTerminal ==
    [][\A b \in Bills :
          bills[b].status = "paid" =>
             /\ bills'[b].status = "paid"
             /\ ~bills'[b].isActive
             /\ ~bills'[b].isInMarketplace]_vars

\* in this step the request in slot s ends in a failure
Fails(s) == reqs'[s] = IdleReq /\ last'.result # "success"

\* C14: Update, Accept and Cancel called on a stored bid whose expiresAt is
\* <= now fail at their checks and change nothing.
C14_ExpiredNotActionable ==
    [][/\ \A s \in Slots, u \in Users, i \in BidIds :
             /\ (AcceptLoad(s, u, i) /\ i \in DOMAIN bids
                    /\ bids[i].expiresAt <= now) =>
                   Fails(s) /\ UNCHANGED db
             /\ (CancelLoad(s, u, i) /\ i \in DOMAIN bids
                    /\ bids[i].expiresAt <= now) =>
                   Fails(s) /\ UNCHANGED db
       /\ \A s \in Slots :
             (UpdateFindBid(s) /\ reqs[s].bid \in DOMAIN bids
                 /\ bids[reqs[s].bid].expiresAt <= now) =>
                Fails(s) /\ UNCHANGED db]_vars

\* C15: no bid with expiresAt <= now is returned by findHighestBid or
\* getActiveBids, and getActiveBids returns exactly the bill's bids stored
\* pending with expiresAt > now.
C15_ExpiredExcluded ==
    \A b \in Bills :
       /\ \A i \in getActiveBids(b, now) : bids[i].expiresAt > now
       /\ \A i \in findHighestBid(b, now) \ {0} : bids[i].expiresAt > now
       /\ getActiveBids(b, now) =
             {i \in BidsOn(b) :
                 bids[i].status = "pending" /\ bids[i].expiresAt > now}

\* C15 witness: a bid stored pending whose expiresAt is in the past is left
\* out of both results while another bid of the bill is returned.
C15_Witness ==
    \E b \in Bills, i, j \in DOMAIN bids :
       /\ bids[i].bill = b /\ bids[i].status = "pending"
       /\ bids[i].expiresAt < now
       /\ i \notin getActiveBids(b, now)
       /\ i \notin findHighestBid(b, now)
       /\ j \in getActiveBids(b, now)
       /\ j \in findHighestBid(b, now)

\* C16: a bill is in the marketplace listing exactly when it is in the
\* marketplace, sent, not past due and has no financer.
C16_MarketplaceListing ==
    \A b \in Bills : b \in getMarketplaceBills(now) <=> Eligible(bills[b])

\* C17: a bill stored sent with dueDate in the past is reported overdue by
\* the single-bill read and the by-status listing, and is not listed in the
\* marketplace.
C17_ReadsReportOverdue ==
    \A b \in Bills :
       (bills[b].status = "sent" /\ bills[b].dueDate < now) =>
          /\ getBill(b).status = "overdue"
          /\ b \in getBillsByStatus(bills[b].organization, "overdue")
          /\ b \notin getBillsByStatus(bills[b].organization, "sent")
          /\ b \notin getMarketplaceBills(now)

\* C18: Send by a non-owner fails Forbidden and Send on a non-draft bill
\* fails InvalidState, both changing nothing; Send by the owner on a draft
\* bill passes the checks and its save leaves the bill sent, stamped and in
\* the marketplace.
C18_SendDraft ==
    [][\A s \in Slots :
          /\ SendLoad(s) =>
                IF bills[reqs[s].bill].organization # reqs[s].actor
                THEN Answers(s, "send", "Forbidden") /\ UNCHANGED db
                ELSE IF bills[reqs[s].bill].status # "draft"
                THEN Answers(s, "send", "InvalidState") /\ UNCHANGED db
                ELSE reqs'[s].pc = "saveBill"
          /\ (SendSaveBill(s) /\ bills[reqs[s].bill].status = "draft") =>
                /\ bills'[reqs[s].bill].status = "sent"
                /\ bills'[reqs[s].bill].sentAt = now
                /\ bills'[reqs[s].bill].isInMarketplace]_vars

\* C19: the saves of an Accept of bid B leave B stored accepted with
\* acceptedAt stamped, and B's bill with financer = currentOwner =
\* B.financer, status financed, financingPercentage = B.financingPercentage,
\* financedAmount = B.bidAmount, out of the marketplace, financedAt stamped.
C19_AcceptEffects ==
    [][\A s \in Slots :
          /\ (AcceptSaveBid(s) /\ reqs'[s].pc = "saveBill") =>
                /\ bids'[reqs[s].bid].status = "accepted"
                /\ bids'[reqs[s].bid].acceptedAt # NoTime
          /\ (AcceptSaveBill(s) /\ reqs'[s].pc = "rejectOthers") =>
                /\ reqs[s].bid \in DOMAIN bids
                /\ bills'[reqs[s].bill] =
                      [bills[reqs[s].bill] EXCEPT
                          !.financer = bids[reqs[s].bid].financer,
                          !.currentOwner = bids[reqs[s].bid].financer,
                          !.status = "financed",
                          !.financingPercentage =
                              bids[reqs[s].bid].financingPercentage,
                          !.financedAmount = bids[reqs[s].bid].bidAmount,
                          !.isInMarketplace = FALSE,
                          !.financedAt = bills'[reqs[s].bill].financedAt]
                /\ bills'[reqs[s].bill].financedAt # NoTime]_vars

\* C20: the ledger steps of an Accept of bid B add exactly 1 to the winning
\* financer's won-bids counter, exactly B.bidAmount to its invested counter,
\* subtract exactly B.bidAmount from its availableFunds, and no step of an
\* Accept changes another user.
C20_AcceptLedger ==
    [][\A s \in Slots :
          AcceptStep(s) =>
             LET f == reqs[s].sbid.financer
                 amt == reqs[s].sbid.bidAmount
             IN /\ \A u \in Users \ {f} : users'[u] = users[u]
                /\ AcceptStatsWon(s) =>
                      users'[f] = [users[f] EXCEPT
                                     !.totalBidsWon = @ + 1]
                /\ AcceptStatsInvested(s) =>
                      users'[f] = [users[f] EXCEPT
                                     !.totalInvestmentAmount = @ + amt]
                /\ AcceptDebit(s) =>
                      users'[f] = [users[f] EXCEPT
                                     !.availableFunds = @ - amt]]_vars

\* C21: Pay passes its checks only for the bill's customer on a bill stored
\* sent, overdue or financed; its save leaves the bill paid, stamped,
\* inactive and out of the marketplace; its ledger steps add bill.amount to
\* the customer's amount-paid counter and credit the bill's currentOwner
\* with amount (organization) or amount - financedAmount (financer).
C21_PayEffects ==
    [][\A s \in Slots :
          LET b == reqs[s].bill
              c == reqs[s].actor
          IN /\ (PayLoad(s) /\ reqs'[s].pc = "saveBill") =>
                   /\ bills[b].customer = c
                   /\ bills[b].status \in {"sent", "overdue", "financed"}
             /\ (PaySaveBill(s) /\ reqs'[s].pc = "statsPaid") =>
                   /\ bills'[b].status = "paid"
                   /\ bills'[b].paidAt # NoTime
                   /\ ~bills'[b].isActive
                   /\ ~bills'[b].isInMarketplace
             /\ PayStatsAmount(s) =>
                   users'[c].totalAmountPaid =
                      users[c].totalAmountPaid + bills[b].amount
             /\ PayOwnerStats(s) =>
                   LET o == bills[b].currentOwner
                   IN IF users[o].role = "organization"
                      THEN users'[o].totalRevenue =
                              users[o].totalRevenue + bills[b].amount
                      ELSE users'[o].totalReturns =
                              users[o].totalReturns
                                 + (bills[b].amount - bills[b].financedAmount)]_vars

\* no request is in flight
Quiescent == \A s \in Slots : Vacant(s)

\* the bills of customer c that have been paid
PaidBills(c) ==
    {b \in Bills : bills[b].customer = c /\ bills[b].paidAt # NoTime}

RECURSIVE SumAmounts(_)
SumAmounts(S) ==
    IF S = {} THEN 0
    ELSE LET b == CHOOSE x \in S : TRUE
         IN bills[b].amount + SumAmounts(S \ {b})

\* C22: when no request is in flight, each customer's bills-paid counter is
\* the number of its bills that were paid, its amount-paid counter is the sum
\* of their amounts, and revenue and returns together were credited at most
\* once per paid bill.
C22_PaidOnce ==
    Quiescent =>
       \A c \in Users :
          /\ users[c].totalBillsPaid = Cardinality(PaidBills(c))
          /\ users[c].totalAmountPaid = SumAmounts(PaidBills(c))
          /\ users[c].totalRevenue + users[c].totalReturns
                <= SumAmounts({b \in Bills : bills[b].paidAt # NoTime})

\* mutant: every error response counts as a precondition failure
AnyError(res) == res # "success" /\ res # "none"

\* the responses by which a handler rejects a call whose role, ownership,
\* existence, state, expiry, duplicate or funds precondition fails
PreconditionError(res) ==
    res \in {"Forbidden", "NotFound", "InvalidReference", "InvalidState",
             "AlreadyPaid", "Expired", "AlreadyFinanced", "InsufficientFunds",
             "DuplicateBid", "DuplicateKey"}

\* the positions of a handler at which it has written nothing yet
PreWritePcs ==
    {"idle", "load", "findCustomer", "findBill", "findOne", "create",
     "findBid"}

\* in this step the request served in slot s is rejected for a precondition
Rejected(s) ==
    /\ reqs'[s] = IdleReq
    /\ started' # started \/ reqs[s] # IdleReq
    /\ PreconditionError(last'.result)

C24_DraftOnlyEdits ==
    [][\A b \in Bills :
          Stored(b) =>
             /\ bills[b].status # "draft" =>
                   /\ bills'[b] # NoDoc
                   /\ bills'[b].amount = bills[b].amount
                   /\ bills'[b].dueDate = bills[b].dueDate
                   /\ bills'[b].customer = bills[b].customer
             /\ bills'[b] # NoDoc =>
                   bills'[b].organization = bills[b].organization]_vars

\* C25: Create by a non-organization fails Forbidden, Create naming a
\* customer that is missing or not a customer fails, and the bill a Create
\* stores is a draft of the calling organization with no financer,
\* financedAmount 0 and outside the marketplace.
C25_CreateDraft ==
    [][\A s \in Slots :
          /\ \A u \in Users, body \in CreateBodies :
                (CreateBegin(s, u, body) /\ users[u].role # "organization") =>
                   Answers(s, "create", "Forbidden") /\ UNCHANGED db
          /\ (CreateFindCustomer(s)
                /\ (~users[reqs[s].body.customer].active
                      \/ users[reqs[s].body.customer].role # "customer")) =>
                Fails(s) /\ UNCHANGED db
          /\ (CreateBill(s) /\ reqs'[s].pc = "stats") =>
                LET n == bills'[reqs'[s].bill]
                IN /\ ~Stored(reqs'[s].bill)
                   /\ n.status = "draft"
                   /\ n.organization = reqs[s].actor
                   /\ n.currentOwner = reqs[s].actor
                   /\ n.financer = Null
                   /\ n.financedAmount = 0
                   /\ ~n.isInMarketplace]_vars

\* C26: every stored bill with isInMarketplace = true has status sent and no
\* financer.
C26_ListedOnlySentUnfinanced ==
    \A b \in Bills :
       (Stored(b) /\ bills[b].isInMarketplace) =>
          bills[b].status = "sent" /\ bills[b].financer = Null

\* C27: an Accept of a stored bid by anyone but the organization of the
\* bid's bill fails Forbidden and changes nothing, and a bid becomes accepted
\* only by the save of an Accept made by that organization.
C27_OnlyOwnerAccepts ==
    [][/\ \A s \in Slots, u \in Users, i \in BidIds :
             (AcceptLoad(s, u, i) /\ i \in DOMAIN bids
                 /\ bills[bids[i].bill].organization # u) =>
                Answers(s, "accept", "Forbidden") /\ UNCHANGED db
       /\ \A i \in DOMAIN bids :
             (bids[i].status # "accepted" /\ i \in DOMAIN bids'
                 /\ bids'[i].status = "accepted") =>
                \E s \in Slots :
                   /\ AcceptSaveBid(s)
                   /\ reqs[s].bid = i
                   /\ reqs[s].actor = bills[bids[i].bill].organization]_vars

\* C27 witness: an Accept by another actor was refused while the bid it
\* named is pending and unexpired on an unfinanced bill.
C27_Witness ==
    /\ Answered("accept", "Forbidden")
    /\ \E i \in DOMAIN bids :
          /\ bids[i].status = "pending" /\ bids[i].expiresAt > now
          /\ bills[bids[i].bill].financer = Null

C30_TerminalBidStates ==
    [][\A i \in DOMAIN bids :
          bids[i].status \in {"accepted", "rejected"} =>
             /\ i \in DOMAIN bids'
             /\ bids'[i].status = bids[i].status
             /\ bids'[i].financingPercentage =
                   bids[i].financingPercentage]_vars

\* C31: every updateStats step adds its increment to the counter as stored:
\* the bids-placed counter grows by 1 at the end of a Place, the bids-won
\* counter by 1 and the invested counter by bidAmount in an Accept.
C31_StatsAdd ==
    [][\A s \in Slots :
          LET r == reqs[s]
          IN /\ PlaceStats(s) =>
                   users'[r.actor].totalBidsPlaced =
                      users[r.actor].totalBidsPlaced + 1
             /\ AcceptStatsWon(s) =>
                   users'[r.sbid.financer].totalBidsWon =
                      users[r.sbid.financer].totalBidsWon + 1
             /\ AcceptStatsInvested(s) =>
                   users'[r.sbid.financer].totalInvestmentAmount =
                      users[r.sbid.financer].totalInvestmentAmount
                         + r.sbid.bidAmount]_vars

\* the accepted bids of financer f
AcceptedBy(f) ==
    {i \in DOMAIN bids : bids[i].financer = f /\ bids[i].status = "accepted"}

RECURSIVE SumBidAmounts(_)
SumBidAmounts(S) ==
    IF S = {} THEN 0
    ELSE LET i == CHOOSE x \in S : TRUE
         IN bids[i].bidAmount + SumBidAmounts(S \ {i})

\* C32: availableFunds changes only by addFunds, which adds its amount to the
\* stored value, and by the debit of an Accept, which subtracts bidAmount
\* from the stored value; and when no request is in flight each financer's
\* invested counter is the sum of bidAmount over its accepted bids.
C32_FundsConserved ==
    [][/\ \A s \in Slots :
             LET r == reqs[s]
             IN /\ AddFundsSave(s) =>
                      users'[r.actor].availableFunds =
                         users[r.actor].availableFunds + r.amount
                /\ AcceptDebit(s) =>
                      users'[r.sbid.financer].availableFunds =
                         users[r.sbid.financer].availableFunds
                            - r.sbid.bidAmount
       /\ \A u \in Users :
             users'[u].availableFunds # users[u].availableFunds =>
                \E s \in Slots :
                   \/ AddFundsSave(s) /\ reqs[s].actor = u
                   \/ AcceptDebit(s) /\ reqs[s].sbid.financer = u
       /\ Quiescent' =>
             \A f \in Users :
                users'[f].role = "financer" =>
                   users'[f].totalInvestmentAmount =
                      SumBidAmounts(AcceptedBy(f))']_vars

\* the pending, unexpired bids on bill b
ActiveOn(b) ==
    {i \in BidsOn(b) : bids[i].status = "pending" /\ bids[i].expiresAt > now}

\* C33: findHighestBid returns no bid exactly when the bill has no pending,
\* unexpired bid, and otherwise a pending, unexpired bid of the bill whose
\* financingPercentage is the maximum over those bids.
C33_HighestBid ==
    \A b \in Bills :
       /\ 0 \in findHighestBid(b, now) <=> ActiveOn(b) = {}
       /\ findHighestBid(b, now) # {}
       /\ \A i \in findHighestBid(b, now) \ {0} :
             /\ i \in ActiveOn(b)
             /\ \A j \in ActiveOn(b) :
                   bids[i].financingPercentage >= bids[j].financingPercentage

\* C33 witness: on one bill the lookup returns the bid with the larger
\* percentage of two pending, unexpired bids, and on another bill, whose only
\* bid is no longer pending, it returns no bid.
C33_Witness ==
    /\ \E b \in Bills, i, j \in DOMAIN bids :
          /\ findHighestBid(b, now) = {i}
          /\ j \in ActiveOn(b)
          /\ bids[j].financingPercentage < bids[i].financingPercentage
    /\ \E b \in Bills :
          /\ findHighestBid(b, now) = {0}
          /\ BidsOn(b) # {}

\* C34: no updateProfile call changes the caller's availableFunds.
C34_ProfileKeepsFunds ==
    [][\A s \in Slots, u \in Users, body \in ProfileBodies :
          UpdateProfile(s, u, body) =>
             users'[u].availableFunds = users[u].availableFunds]_vars

\* C35: the lookup has one possible result, and among the pending, unexpired
\* bids that share the maximum percentage it is the one created first (bid
\* ids are handed out in creation order).
C35_TieDeterministic ==
    \A b \in Bills :
       /\ Cardinality(findHighestBid(b, now)) = 1
       /\ \A i \in findHighestBid(b, now) \ {0} :
             \A j \in ActiveOn(b) :
                bids[j].financingPercentage = bids[i].financingPercentage =>
                   i <= j

====
